---- MODULE Spec2Model ----
(***************************************************************************)
(* The PR curves plugin of TensorBoard (pr_curves_plugin.py): a stateless  *)
(* query layer over an event multiplexer.  The multiplexer is the state;   *)
(* the plugin's operations read it and produce a response.                 *)
(***************************************************************************)
EXTENDS Integers, Sequences, FiniteSets, TLC

\* ------------------------------------------------------------------ bounds

\* Events held by the store, over all runs and tags.
MaxEvents == 2
\* Thresholds (columns) of one tensor payload.
MaxThresholds == 2
\* Length of the run list of one GetCurves request.
MaxRequestRuns == 2

\* --------------------------------------------------------------- constants

Runs == {"colors", "mask_every_other_prediction"}
Tags == {"red/pr_curves", "blue/pr_curves"}

\* Python's None, for an absent request parameter and an absent multiplexer.
None == "None"

\* metadata.PRECISION_INDEX, metadata.RECALL_INDEX: the rows of the payload.
PRECISION_INDEX == 0
RECALL_INDEX == 1
\* Rows of a payload: the precision row and the recall row.
NumRows == 2
\* The wall time of the first event written.
BaseWallTime == 100

VARIABLES
  multiplexer,  \* self._multiplexer: None, or "store" (the reference to the store)
  store,        \* the event store: run -> [tags, content, tensors]
  response,     \* the last call and its outcome, until the caller has taken it
  call,         \* an available_steps_impl call between two of its queries
  num_thresholds  \* the thresholds of the payloads the writer logs

vars == <<multiplexer, store, response, call, num_thresholds>>

\* ------------------------------------------------------------ python values

Range(s) == {s[i] : i \in DOMAIN s}

\* d[k] = v on a dict modelled as a function.
DictSet(d, k, v) == [x \in DOMAIN d \cup {k} |-> IF x = k THEN v ELSE d[x]]

\* del d[k]
DictDel(d, k) == [x \in DOMAIN d \ {k} |-> d[x]]

EmptyDict == [x \in {} |-> None]

Return(value, queries) == [kind |-> "return", value |-> value, queries |-> queries]

Raise(exc, message, queries) == [kind |-> exc, message |-> message, queries |-> queries]

\* ------------------------------------------------------- the event store

\* The tensor payload the writer logs at a step: NumRows rows of n thresholds,
\* flattened row-major, every element distinct.
TensorProto(step, n) ==
  [dim |-> <<NumRows, n>>,
   float_val |-> [i \in 1..(NumRows * n) |-> 10 * step + i]]

TotalEvents(st) ==
  LET slots == {<<r, t>> \in Runs \X Tags : r \in DOMAIN st /\ t \in DOMAIN st[r].tensors}
      RECURSIVE Sum(_)
      Sum(S) == IF S = {} THEN 0
                ELSE LET s == CHOOSE s \in S : TRUE
                     IN Len(st[s[1]].tensors[s[2]]) + Sum(S \ {s})
  IN Sum(slots)

EmptyRun == [tags |-> <<>>, content |-> EmptyDict, tensors |-> EmptyDict]

TagContent(run, tag) == [displayName |-> <<"classifying", tag>>, description |-> <<"run", run>>]

\* EventMultiplexer.Tensors(run, tag): the events, or KeyError for an unknown pair.
Tensors(st, run, tag) ==
  IF run \in DOMAIN st /\ tag \in DOMAIN st[run].tensors
    THEN [kind |-> "return", value |-> st[run].tensors[tag]]
    ELSE [kind |-> "KeyError"]

\* EventMultiplexer.PluginRunToTagToContent(plugin_name): run -> ordered dict
\* tag -> content; keys is the dict's iteration order.
PluginRunToTagToContent(st) ==
  [run \in DOMAIN st |->
     [kind |-> "dict", keys |-> st[run].tags, vals |-> st[run].content]]

\* --------------------------------------------------- the plugin's functions

\* tf.make_ndarray(tensor_proto): the flat values as an array indexed from 0 by
\* row and column.
make_ndarray(tensor_proto) ==
  LET rows == tensor_proto.dim[1]
      cols == tensor_proto.dim[2]
  IN [r \in 0..(rows - 1) |->
        [c \in 0..(cols - 1) |-> tensor_proto.float_val[r * cols + c + 1]]]

\* ndarray.tolist() of one row: a list, indexed from 1 as a sequence.
tolist(row) == [i \in 1..Cardinality(DOMAIN row) |-> row[i - 1]]

process_tensor_event_swapped(event) ==
  LET data_array == make_ndarray(event.tensor_proto)
  IN [wall_time |-> event.wall_time,
      step |-> event.step,
      precision |-> tolist(data_array[RECALL_INDEX]),
      recall |-> tolist(data_array[PRECISION_INDEX])]

process_tensor_event_step_from_time(event) ==
  LET data_array == make_ndarray(event.tensor_proto)
  IN [wall_time |-> event.wall_time,
      step |-> event.wall_time,
      precision |-> tolist(data_array[PRECISION_INDEX]),
      recall |-> tolist(data_array[RECALL_INDEX])]

\* PrCurvesPlugin._process_tensor_event
process_tensor_event(event) ==
  LET data_array == make_ndarray(event.tensor_proto)
  IN [wall_time |-> event.wall_time,
      step |-> event.step,
      precision |-> tolist(data_array[PRECISION_INDEX]),
      recall |-> tolist(data_array[RECALL_INDEX])]

\* 'No PR curves could be fetched for run %r and tag %r' % (run, tag)
NoCurvesMessage(run, tag) ==
  <<"No PR curves could be fetched for run ", run, " and tag ", tag>>

\* The loop of pr_curves_impl with a failed lookup skipped instead of raised.
RECURSIVE pr_curves_loop_skip(_, _, _, _, _)
pr_curves_loop_skip(st, runs, tag, i, response_mapping) ==
  IF i > Len(runs) THEN Return(response_mapping, Len(runs))
  ELSE LET run == runs[i]
           tensor_events == Tensors(st, run, tag)
       IN IF tensor_events.kind = "KeyError"
            THEN pr_curves_loop_skip(st, runs, tag, i + 1, response_mapping)
            ELSE pr_curves_loop_skip(st, runs, tag, i + 1,
                   DictSet(response_mapping, run,
                     [j \in 1..Len(tensor_events.value) |->
                        process_tensor_event(tensor_events.value[j])]))

\* The loop of pr_curves_impl from its i-th run on: the mapping built so far is
\* response_mapping; i - 1 queries have been issued.
RECURSIVE pr_curves_loop(_, _, _, _, _)
pr_curves_loop(st, runs, tag, i, response_mapping) ==
  IF i > Len(runs) THEN Return(response_mapping, Len(runs))
  ELSE LET run == runs[i]
           tensor_events == Tensors(st, run, tag)
       IN IF tensor_events.kind = "KeyError"
            THEN Raise("ValueError", NoCurvesMessage(run, tag), i)
            ELSE pr_curves_loop(st, runs, tag, i + 1,
                   DictSet(response_mapping, run,
                     [j \in 1..Len(tensor_events.value) |->
                        process_tensor_event(tensor_events.value[j])]))

\* A call through self._multiplexer when it is None.
NoMultiplexer == Raise("AttributeError", <<"'NoneType' object has no attribute">>, 0)

\* PrCurvesPlugin.pr_curves_impl
pr_curves_impl(mux, st, runs, tag) ==
  IF mux = None /\ runs # <<>> THEN NoMultiplexer
  ELSE pr_curves_loop(st, runs, tag, 1, EmptyDict)

\* PrCurvesPlugin.tags_impl
tags_impl(mux, st) ==
  IF mux = None THEN NoMultiplexer
  ELSE LET all_runs == PluginRunToTagToContent(st)
       IN Return([run \in DOMAIN all_runs |->
                    [kind |-> "list", items |-> all_runs[run].keys]], 1)

\* The body of one iteration of the loop of available_steps_impl with a run that
\* lacks tags listed with no steps instead of left out.
available_steps_iter_keep_empty(st, response_, run, tag_to_content) ==
  IF tag_to_content.keys = <<>> THEN Return(DictSet(response_, run, <<>>), 0)
  ELSE LET tensor_events == Tensors(st, run, tag_to_content.keys[1])
       IN IF tensor_events.kind = "KeyError"
            THEN Raise("KeyError", <<run, tag_to_content.keys[1]>>, 1)
            ELSE Return(DictSet(response_, run,
                          [j \in 1..Len(tensor_events.value) |->
                             tensor_events.value[j].step]), 1)

\* The body of one iteration of the loop of available_steps_impl: the response
\* with the run's steps added, or the KeyError of the store; with the number of
\* queries it issued.
available_steps_iter(st, response_, run, tag_to_content) ==
  IF tag_to_content.keys = <<>> THEN Return(response_, 0)
  ELSE LET tensor_events == Tensors(st, run, tag_to_content.keys[1])
       IN IF tensor_events.kind = "KeyError"
            THEN Raise("KeyError", <<run, tag_to_content.keys[1]>>, 1)
            ELSE Return(DictSet(response_, run,
                          [j \in 1..Len(tensor_events.value) |->
                             tensor_events.value[j].step]), 1)

\* The loop of available_steps_impl over the items of all_runs still to do.
RECURSIVE available_steps_loop(_, _, _, _, _)
available_steps_loop(st, all_runs, todo, response_, queries) ==
  IF todo = {} THEN Return(response_, queries)
  ELSE LET run == CHOOSE r \in todo : TRUE
           it == available_steps_iter(st, response_, run, all_runs[run])
       IN IF it.kind = "return"
            THEN available_steps_loop(st, all_runs, todo \ {run}, it.value,
                                      queries + it.queries)
            ELSE Raise(it.kind, it.message, queries + it.queries)

\* PrCurvesPlugin.available_steps_impl, run against an unchanging store.
available_steps_impl(mux, st) ==
  IF mux = None THEN NoMultiplexer
  ELSE LET all_runs == PluginRunToTagToContent(st)
       IN available_steps_loop(st, all_runs, DOMAIN all_runs, EmptyDict, 1)

is_active_any_run(mux, st) ==
  IF mux = None THEN Return(FALSE, 0)
  ELSE LET all_runs == PluginRunToTagToContent(st)
       IN Return(DOMAIN all_runs # {}, 1)

\* PrCurvesPlugin.is_active
is_active(mux, st) ==
  IF mux = None THEN Return(FALSE, 0)
  ELSE LET all_runs == PluginRunToTagToContent(st)
       IN Return(\E run \in DOMAIN all_runs : all_runs[run].keys # <<>>, 1)

\* ------------------------------------------------------------ the routes

PyStr(s) == [type |-> "str", v |-> s]
PyInt(n) == [type |-> "int", v |-> n]

\* The default of http_util.Respond's code parameter.
DefaultCode == 200

Http(status, content_type, body) ==
  [kind |-> "http", status |-> status, content_type |-> content_type,
   body |-> body, queries |-> 0]

\* http_util.Respond(request, content, content_type, code): the responses it may
\* produce.  A content type that is no string is outside its contract: the call
\* either fails or answers with the code and the value given.
Respond(content, content_type, code) ==
  IF content_type.type # "str"
    THEN {Raise("TypeError", <<"expected string">>, 0),
          Http(code, content_type, [text |-> content])}
    ELSE IF content_type.v = "application/json"
           THEN {Http(code, content_type, [json |-> content])}
           ELSE {Http(code, content_type, [text |-> content])}

WithQueries(outcomes, q) == {[o EXCEPT !.queries = q] : o \in outcomes}

pr_curves_route_always_json(mux, st, runs, tag) ==
  IF runs = <<>>
    THEN Respond(<<"No runs provided when fetching PR curve data">>,
                 PyInt(400), DefaultCode)
  ELSE IF tag = None \/ tag = ""
    THEN Respond(<<"No tag provided when fetching PR curve data">>,
                 PyInt(400), DefaultCode)
  ELSE LET r == pr_curves_loop_skip(st, runs, tag, 1, EmptyDict)
       IN WithQueries(Respond(r.value, PyStr("application/json"), DefaultCode),
                      r.queries)

\* PrCurvesPlugin.pr_curves_route: the responses to a request with the run
\* parameters runs (getlist) and the tag parameter tag (get: None when absent).
pr_curves_route(mux, st, runs, tag) ==
  IF runs = <<>>
    THEN Respond(<<"No runs provided when fetching PR curve data">>,
                 PyInt(400), DefaultCode)
  ELSE IF tag = None \/ tag = ""
    THEN Respond(<<"No tag provided when fetching PR curve data">>,
                 PyInt(400), DefaultCode)
  ELSE LET r == pr_curves_impl(mux, st, runs, tag)
       IN IF r.kind = "return"
            THEN WithQueries(Respond(r.value, PyStr("application/json"), DefaultCode),
                             r.queries)
          ELSE IF r.kind = "ValueError"
            THEN WithQueries(Respond(r.message, PyStr("text/plain"), 400), r.queries)
          ELSE {r}

\* A route that answers with the JSON of what its implementation returns.
JsonRoute(r) ==
  IF r.kind = "return"
    THEN WithQueries(Respond(r.value, PyStr("application/json"), DefaultCode), r.queries)
    ELSE {r}

\* PrCurvesPlugin.tags_route
tags_route(mux, st) == JsonRoute(tags_impl(mux, st))

\* PrCurvesPlugin.available_steps_route
available_steps_route(mux, st) == JsonRoute(available_steps_impl(mux, st))

\* ------------------------------------------------------------- the state

NoResponse == [op |-> "none", runs |-> <<>>, tag |-> None, result |-> Return(None, 0)]

Idle == [pc |-> "idle"]

Response(op, runs, tag, result) ==
  [op |-> op, runs |-> runs, tag |-> tag, result |-> result]

\* The run lists of a request: up to MaxRequestRuns run names.
RunLists == UNION {[1..n -> Runs] : n \in 0..MaxRequestRuns}

\* The tag parameter of a request: absent, empty, or a tag name.
TagParams == Tags \cup {None, ""}

\* PrCurvesPlugin.__init__: the multiplexer of the context, which may be absent;
\* the store starts with no runs.
Init ==
  /\ multiplexer \in {None, "store"}
  /\ store = EmptyDict
  /\ response = NoResponse
  /\ call = Idle
  /\ num_thresholds \in 1..MaxThresholds

\* ------------------------------------------- the store's writer and reload

\* A reload finds a new run directory.
AddRun(run) ==
  /\ response = NoResponse
  /\ call = Idle
  /\ multiplexer # None
  /\ run \notin DOMAIN store
  /\ store' = DictSet(store, run, EmptyRun)
  /\ UNCHANGED <<multiplexer, response, call, num_thresholds>>

\* A reload finds a new tag of this plugin in a run.
AddTag(run, tag) ==
  /\ response = NoResponse
  /\ call = Idle
  /\ run \in DOMAIN store
  /\ tag \notin DOMAIN store[run].tensors
  /\ store' = [store EXCEPT ![run] =
                 [tags |-> Append(@.tags, tag),
                  content |-> DictSet(@.content, tag, TagContent(run, tag)),
                  tensors |-> DictSet(@.tensors, tag, <<>>)]]
  /\ UNCHANGED <<multiplexer, response, call, num_thresholds>>

\* A reload finds a new event of a tag: the next step.
AddEvent(run, tag) ==
  /\ response = NoResponse
  /\ call = Idle
  /\ run \in DOMAIN store
  /\ tag \in DOMAIN store[run].tensors
  /\ TotalEvents(store) < MaxEvents
  /\ LET step == Len(store[run].tensors[tag])
         event == [wall_time |-> BaseWallTime + TotalEvents(store),
                   step |-> step,
                   tensor_proto |-> TensorProto(step, num_thresholds)]
     IN store' = [store EXCEPT ![run].tensors[tag] = Append(@, event)]
  /\ UNCHANGED <<multiplexer, response, call, num_thresholds>>

\* The removals a reload may find while a call is in progress or not.
DropRun(run) ==
  /\ run \in DOMAIN store
  /\ store' = DictDel(store, run)

DropTag(run, tag) ==
  /\ run \in DOMAIN store
  /\ tag \in DOMAIN store[run].tensors
  /\ store' = [store EXCEPT ![run] =
                 [tags |-> SelectSeq(@.tags, LAMBDA t : t # tag),
                  content |-> DictDel(@.content, tag),
                  tensors |-> DictDel(@.tensors, tag)]]

\* A reload finds a run directory deleted.
RemoveRun(run) ==
  /\ response = NoResponse
  /\ call = Idle
  /\ DropRun(run)
  /\ UNCHANGED <<multiplexer, response, call, num_thresholds>>

\* A reload finds a tag gone.
RemoveTag(run, tag) ==
  /\ response = NoResponse
  /\ call = Idle
  /\ DropTag(run, tag)
  /\ UNCHANGED <<multiplexer, response, call, num_thresholds>>

Writer ==
  \E run \in Runs, tag \in Tags :
    \/ AddRun(run)
    \/ AddTag(run, tag)
    \/ AddEvent(run, tag)
    \/ RemoveRun(run)
    \/ RemoveTag(run, tag)

\* ------------------------------------------------------- the operations

\* The calls of this model come one after the other: a caller makes a call when
\* the response of the last one has been taken, or makes the last call again.
MayCall(op, runs, tag) ==
  IF response = NoResponse THEN TRUE
  ELSE response.op = op /\ response.runs = runs /\ response.tag = tag

\* The caller has taken the response of the last call.
TakeResponse ==
  /\ call = Idle
  /\ response # NoResponse
  /\ response' = NoResponse
  /\ UNCHANGED <<multiplexer, store, call, num_thresholds>>

\* A call of tags_impl.
ListTagsPerRun ==
  /\ call = Idle
  /\ MayCall("tags_impl", <<>>, None)
  /\ response' = Response("tags_impl", <<>>, None, tags_impl(multiplexer, store))
  /\ UNCHANGED <<multiplexer, store, call, num_thresholds>>

\* A call of available_steps_impl that samples its tag with popitem(), which
\* takes the tag out of the store's own mapping.
ListAvailableStepsPopping ==
  /\ call = Idle
  /\ MayCall("available_steps_impl", <<>>, None)
  /\ response' = Response("available_steps_impl", <<>>, None,
                          available_steps_impl(multiplexer, store))
  /\ store' = [run \in DOMAIN store |->
                 IF store[run].tags = <<>> THEN store[run]
                 ELSE [tags |-> Tail(store[run].tags),
                       content |-> DictDel(store[run].content, store[run].tags[1]),
                       tensors |-> DictDel(store[run].tensors, store[run].tags[1])]]
  /\ UNCHANGED <<multiplexer, call, num_thresholds>>

\* A call of available_steps_impl, the store unchanged while it runs.
ListAvailableSteps ==
  /\ call = Idle
  /\ MayCall("available_steps_impl", <<>>, None)
  /\ response' = Response("available_steps_impl", <<>>, None,
                          available_steps_impl(multiplexer, store))
  /\ UNCHANGED <<multiplexer, store, call, num_thresholds>>

\* A call of pr_curves_impl(runs, tag).
GetCurves(runs, tag) ==
  /\ call = Idle
  /\ MayCall("pr_curves_impl", runs, tag)
  /\ response' = Response("pr_curves_impl", runs, tag,
                          pr_curves_impl(multiplexer, store, runs, tag))
  /\ UNCHANGED <<multiplexer, store, call, num_thresholds>>

\* A call of is_active.
IsActive ==
  /\ call = Idle
  /\ MayCall("is_active", <<>>, None)
  /\ response' = Response("is_active", <<>>, None, is_active(multiplexer, store))
  /\ UNCHANGED <<multiplexer, store, call, num_thresholds>>

\* A request to /pr_curves.
PrCurvesRoute(runs, tag) ==
  /\ call = Idle
  /\ MayCall("pr_curves_route", runs, tag)
  /\ \E r \in pr_curves_route(multiplexer, store, runs, tag) :
       response' = Response("pr_curves_route", runs, tag, r)
  /\ UNCHANGED <<multiplexer, store, call, num_thresholds>>

\* A request to /tags.
TagsRoute ==
  /\ call = Idle
  /\ MayCall("tags_route", <<>>, None)
  /\ \E r \in tags_route(multiplexer, store) :
       response' = Response("tags_route", <<>>, None, r)
  /\ UNCHANGED <<multiplexer, store, call, num_thresholds>>

\* A request to /available_steps.
AvailableStepsRoute ==
  /\ call = Idle
  /\ MayCall("available_steps_route", <<>>, None)
  /\ \E r \in available_steps_route(multiplexer, store) :
       response' = Response("available_steps_route", <<>>, None, r)
  /\ UNCHANGED <<multiplexer, store, call, num_thresholds>>

\* The four operations of the plugin.
Operation ==
  \/ ListTagsPerRun
  \/ ListAvailableSteps
  \/ IsActive
  \/ \E runs \in RunLists, tag \in Tags : GetCurves(runs, tag)

\* The three routes of get_plugin_apps.
Route ==
  \/ TagsRoute
  \/ AvailableStepsRoute
  \/ \E runs \in RunLists, tag \in TagParams : PrCurvesRoute(runs, tag)

Next == Writer \/ Operation \/ TakeResponse

NextRoutes == Writer \/ Route \/ TakeResponse

\* The operations, one call after the other, against a store that changes only
\* between calls.
Spec == Init /\ [][Next]_vars

\* The routes against a store that changes only between requests, the requests
\* served one after the other.
SpecRoutes == Init /\ [][NextRoutes]_vars

\* ------------------------- available_steps_impl, query by query, under reloads

\* available_steps_impl up to its loop: the 'all runs -> tags' query.
AvailableStepsStart ==
  /\ call = Idle
  /\ response = NoResponse
  /\ multiplexer # None
  /\ call' = [pc |-> "loop",
              all_runs |-> PluginRunToTagToContent(store),
              todo |-> DOMAIN store,
              response |-> EmptyDict,
              queries |-> 1]
  /\ UNCHANGED <<multiplexer, store, response, num_thresholds>>

\* One iteration of the loop, for one of the runs of all_runs not yet visited,
\* against the store as it is now: a KeyError of the store ends the call.
AvailableStepsIterate(run) ==
  /\ call.pc = "loop"
  /\ run \in call.todo
  /\ LET it == available_steps_iter(store, call.response, run, call.all_runs[run])
     IN IF it.kind = "return"
          THEN /\ call' = [call EXCEPT !.todo = @ \ {run},
                                       !.response = it.value,
                                       !.queries = @ + it.queries]
               /\ response' = response
          ELSE /\ call' = Idle
               /\ response' = Response("available_steps_impl", <<>>, None,
                                       Raise(it.kind, it.message, call.queries + it.queries))
  /\ UNCHANGED <<multiplexer, store, num_thresholds>>

\* The end of the loop: the response is returned.
AvailableStepsReturn ==
  /\ call.pc = "loop"
  /\ call.todo = {}
  /\ call' = Idle
  /\ response' = Response("available_steps_impl", <<>>, None,
                          Return(call.response, call.queries))
  /\ UNCHANGED <<multiplexer, store, num_thresholds>>

\* A reload, while the call is between two queries, finds a run directory deleted.
ReloadDropsRun(run) ==
  /\ call.pc = "loop"
  /\ DropRun(run)
  /\ UNCHANGED <<multiplexer, response, call, num_thresholds>>

\* A reload, while the call is between two queries, finds a tag gone.
ReloadDropsTag(run, tag) ==
  /\ call.pc = "loop"
  /\ DropTag(run, tag)
  /\ UNCHANGED <<multiplexer, response, call, num_thresholds>>

NextReload ==
  \/ Writer
  \/ TakeResponse
  \/ AvailableStepsStart
  \/ AvailableStepsReturn
  \/ \E run \in Runs : AvailableStepsIterate(run)
  \/ \E run \in Runs : ReloadDropsRun(run)
  \/ \E run \in Runs, tag \in Tags : ReloadDropsTag(run, tag)

\* available_steps_impl against a store that another thread reloads.
SpecReload == Init /\ [][NextReload]_vars

\* ------------------------------------------------------------- the claims

\* The store knows the pair (run, tag).
Known(run, tag) == run \in DOMAIN store /\ tag \in DOMAIN store[run].tensors

\* The positions of a run list whose lookup of tag fails.
Failing(runs, tag) == {i \in 1..Len(runs) : ~Known(runs[i], tag)}

\* The first of them in request order.
FirstFailing(runs, tag) ==
  CHOOSE i \in Failing(runs, tag) : \A j \in Failing(runs, tag) : i <= j

\* The steps of the events of (run, tag), in the store's order.
StepsOf(run, tag) ==
  [j \in 1..Len(store[run].tensors[tag]) |-> store[run].tensors[tag][j].step]

\* The element of a payload at a row and a column, both counted from 0.
PayloadElement(tensor_proto, row, column) ==
  tensor_proto.float_val[row * tensor_proto.dim[2] + column + 1]

\* C1: when the lookup of at least one requested (run, tag) fails, GetCurves
\* fails with a lookup error whose message names the tag and the first run, in
\* request order, whose lookup failed, and the caller receives no mapping.
C1_AllOrNothing ==
  (/\ response.op = "pr_curves_impl"
   /\ multiplexer # None
   /\ Failing(response.runs, response.tag) # {})
  => /\ response.result.kind = "ValueError"
     /\ "value" \notin DOMAIN response.result
     /\ response.result.message =
          NoCurvesMessage(response.runs[FirstFailing(response.runs, response.tag)],
                          response.tag)

\* A call that fails at its second run after a first run with events.
C1_Witness ==
  /\ response.op = "pr_curves_impl"
  /\ Len(response.runs) = 2
  /\ Failing(response.runs, response.tag) = {2}
  /\ store[response.runs[1]].tensors[response.tag] # <<>>
  /\ response.result.kind = "ValueError"

\* C2: ListTagsPerRun returns the store's run -> {tag -> TagMetadata} structure:
\* a key for every run of the store, and for every run and every tag of that
\* run, result[run][tag] is the tag's metadata as the store holds it.
C2_TagsVerbatim ==
  (/\ response.op = "tags_impl"
   /\ multiplexer # None)
  => /\ response.result.kind = "return"
     /\ DOMAIN response.result.value = DOMAIN store
     /\ \A run \in DOMAIN store : \A tag \in DOMAIN store[run].content :
          /\ response.result.value[run].kind = "dict"
          /\ response.result.value[run].vals[tag] = store[run].content[tag]

\* C3: when the store knows the tag for every requested run, GetCurves returns
\* a mapping whose keys are exactly the requested runs, with one entry per event
\* of (run, tag), in the store's order, each with the event's step and wall_time.
C3_CurvesOnSuccess ==
  (/\ response.op = "pr_curves_impl"
   /\ multiplexer # None
   /\ response.runs # <<>>
   /\ Failing(response.runs, response.tag) = {})
  => /\ response.result.kind = "return"
     /\ DOMAIN response.result.value = Range(response.runs)
     /\ \A run \in Range(response.runs) :
          LET events == store[run].tensors[response.tag]
              entries == response.result.value[run]
          IN /\ Len(entries) = Len(events)
             /\ \A j \in 1..Len(events) :
                  /\ entries[j].step = events[j].step
                  /\ entries[j].wall_time = events[j].wall_time

\* A successful call for two different runs, one of them with two events.
C3_Witness ==
  /\ response.op = "pr_curves_impl"
  /\ Len(response.runs) = 2
  /\ response.runs[1] # response.runs[2]
  /\ Failing(response.runs, response.tag) = {}
  /\ \E run \in Range(response.runs) : Len(store[run].tensors[response.tag]) >= 2
  /\ response.result.kind = "return"

\* C4: ListAvailableSteps returns a mapping whose keys are exactly the runs with
\* a non-empty tag mapping, each with the steps of the events of one of the
\* run's own tags: N values for N events, in the store's order.
C4_AvailableSteps ==
  (/\ response.op = "available_steps_impl"
   /\ multiplexer # None)
  => /\ response.result.kind = "return"
     /\ DOMAIN response.result.value = {run \in DOMAIN store : store[run].tags # <<>>}
     /\ \A run \in DOMAIN response.result.value :
          \E tag \in Range(store[run].tags) :
            response.result.value[run] = StepsOf(run, tag)

\* A call on a store with a run without tags and a run with two events.
C4_Witness ==
  /\ response.op = "available_steps_impl"
  /\ response.result.kind = "return"
  /\ \E run \in DOMAIN store : store[run].tags = <<>>
  /\ \E run \in DOMAIN response.result.value : Len(response.result.value[run]) >= 2

\* C5: IsActive is false without a store or when every run's tag mapping is
\* empty, and true exactly when some run of the store has a tag.
C5_IsActive ==
  response.op = "is_active"
  => /\ response.result.kind = "return"
     /\ response.result.value =
          (/\ multiplexer # None
           /\ \E run \in DOMAIN store : store[run].tags # <<>>)

\* A call that answers false on a store that has runs, none of them with a tag.
C5_Witness ==
  /\ response.op = "is_active"
  /\ DOMAIN store # {}
  /\ response.result.value = FALSE

\* A call that answers true.
C5_WitnessActive ==
  /\ response.op = "is_active"
  /\ response.result.value = TRUE

\* The request lacks a required parameter.
Invalid(runs, tag) == runs = <<>> \/ tag = None \/ tag = ""

\* C6: the /pr_curves route answers a request without run, or without tag or
\* with an empty tag, with status 400 and a plain-text message, and issues no
\* query to the store.
C6_ValidationError400 ==
  (/\ response.op = "pr_curves_route"
   /\ Invalid(response.runs, response.tag))
  => /\ response.result.kind = "http"
     /\ response.result.status = 400
     /\ "text" \in DOMAIN response.result.body
     /\ response.result.queries = 0

\* What holds of such a request: no query is issued to the store.
C6_NoStoreQuery ==
  (/\ response.op = "pr_curves_route"
   /\ Invalid(response.runs, response.tag))
  => response.result.queries = 0

C7_WitnessSuccess ==
  /\ response.op = "pr_curves_route"
  /\ Len(response.runs) = 2
  /\ response.runs[1] # response.runs[2]
  /\ ~Invalid(response.runs, response.tag)
  /\ Failing(response.runs, response.tag) = {}
  /\ response.result.kind = "http"
  /\ response.result.status = 200

\* C8: for every run, event and threshold i, the entry's precision[i] is the
\* payload's element at row 0, column i and its recall[i] the element at row 1,
\* column i; both sequences have the payload's number of columns.
C8_PrecisionRecallRows ==
  (/\ response.op = "pr_curves_impl"
   /\ response.result.kind = "return")
  => \A run \in DOMAIN response.result.value :
       \A j \in 1..Len(response.result.value[run]) :
         LET entry == response.result.value[run][j]
             payload == store[run].tensors[response.tag][j].tensor_proto
             thresholds == payload.dim[2]
         IN /\ Len(entry.precision) = thresholds
            /\ Len(entry.recall) = thresholds
            /\ \A i \in 0..(thresholds - 1) :
                 /\ entry.precision[i + 1] = PayloadElement(payload, 0, i)
                 /\ entry.recall[i + 1] = PayloadElement(payload, 1, i)

\* A returned entry of a payload with at least two thresholds.
C8_Witness ==
  /\ response.op = "pr_curves_impl"
  /\ response.result.kind = "return"
  /\ \E run \in DOMAIN response.result.value :
       /\ response.result.value[run] # <<>>
       /\ Len(response.result.value[run][1].precision) >= 2

\* C9: ListAvailableSteps has no failure outcome: it never ends in a lookup
\* error, also when a run or tag disappears between its queries.
C9_NoFailure ==
  (/\ response.op = "available_steps_impl"
   /\ multiplexer # None)
  => response.result.kind = "return"

\* C10: every operation, succeeding or failing, leaves the store and the
\* plugin's store reference unchanged, and a call repeated on the unchanged
\* store yields the same result.
C10_PureQueries ==
  [][(response' # NoResponse)
       => /\ store' = store
          /\ multiplexer' = multiplexer
          /\ (/\ response'.op = response.op
              /\ response'.runs = response.runs
              /\ response'.tag = response.tag)
             => response'.result = response.result]_vars

\* A failed call and a store that still holds its runs.
C10_Witness ==
  /\ response.op = "pr_curves_impl"
  /\ response.result.kind = "ValueError"
  /\ DOMAIN store # {}

====
